---- MODULE Spec2Model ----
(***************************************************************************)
(* A model of src/feishu_bitable.py: the table client's bulk update with   *)
(* per-row degradation (FeishuBitable.batch_update_records_by_code), the   *)
(* stock price resolver (get_us_stock_price, _get_single_us_stock_price)   *)
(* and the single-identifier fund resolver (_get_single_china_fund_price). *)
(*                                                                         *)
(* Prices are integers (the sign is what the code tests), sleeps are in    *)
(* tenths of a second, and every request the code sends is appended, with  *)
(* its outcome, to a history variable, so that the properties can speak    *)
(* about which requests were made and in which order.                      *)
(***************************************************************************)
EXTENDS Integers, Sequences, FiniteSets, TLC

VARIABLES
    \* ---- batch_update_records_by_code (lines 158-201)
    code_keys,          \* the keys of code_records_dict, in iteration order
    code_records_dict,  \* code -> list of record ids
    code_price_dict,    \* code -> price, for the codes that have one
    total_updated,
    total_failed,
    upc,                \* "loop" | "rows" | "done" | "raised"
    code_idx,           \* position of the outer for loop in code_keys
    row_idx,            \* position of the inner (fallback) for loop
    calls,              \* history: the table requests made, with their outcome
    returned,           \* <<>> until the operation returns, then <<updated, failed>>
    \* ---- the price resolvers (lines 215-545)
    ticker,             \* get_us_stock_price's argument: a list of symbols, or one symbol
    fund_code,          \* _get_single_china_fund_price's argument
    alpha_vantage_key,  \* whether self.alpha_vantage_key is set (line 18)
    world,              \* what each price provider answers in this run
    result_dict,        \* symbol -> price
    i,                  \* start offset of the current group (line 239)
    deg_idx,            \* position of the degraded per-symbol loop (line 307)
    rpc,                \* "request" | "retry" | "degrade" | "call" | "done" | "idle"
    log,                \* history: provider requests and sleeps, in order
    ret,                \* the value returned by the resolver
    \* ---- the tenant access token (lines 6-53)
    access_token,       \* self.access_token: <<>> (None) or <<token>>
    token_expiry_time,  \* self.token_expiry_time, in seconds
    now,                \* what time.time() returns, in seconds
    http,               \* history: the requests sent to the table service
    \* ---- the script (lines 548-667)
    records,            \* what search_records returned: the rows of the table
    mpc,                \* the script's position
    china_fund_codes,   \* line 598
    us_stock_codes      \* line 599

updVars == <<code_keys, code_records_dict, code_price_dict, total_updated,
             total_failed, upc, code_idx, row_idx, calls, returned>>

resVars == <<ticker, fund_code, alpha_vantage_key, world, result_dict, i,
             deg_idx, rpc, log, ret>>

cliVars == <<access_token, token_expiry_time, now, http>>

mainVars == <<records, mpc, china_fund_codes, us_stock_codes>>

vars == <<updVars, resVars, cliVars, mainVars>>

\* ------------------------------------------------------------------ bounds
MaxCodes == 2
MaxRows == 2
MaxTickers == 17
MaxWorld == 5
MaxFunds == 1
MaxFundList == 2
MaxLifetimes == 1
MaxRequests == 2
MaxTableRows == 2
MaxMainWorld == 1

\* ------------------------------------------------------------------ values
None == <<>>
Some(v) == <<v>>

Range(f) == {f[x] : x \in DOMAIN f}

Min(a, b) == IF a < b THEN a ELSE b

RECURSIVE SumSeq(_)
SumSeq(s) == IF s = <<>> THEN 0 ELSE Head(s) + SumSeq(Tail(s))

\* =========================================================================
\* Table client: batch_update_records_by_code
\* =========================================================================

\* The prices the orchestrator may hand over (code_price_dict values).
Prices == {3, 7}

\* Record ids are opaque and distinct over the whole table.
RecId(c, r) == c * (MaxRows + 1) + r

\* How a table request can end: batch_update_records and update_record
\* return on a response code 0 and raise Exception otherwise (a non-zero
\* code, a transport error: the callers catch Exception and do not tell
\* them apart).
UpdateOutcomes == {"ok", "raises"}

\* One table request, as recorded in calls.
Call(op, code, rids, price, outcome) ==
    [op |-> op, code |-> code, rids |-> rids, price |-> price, outcome |-> outcome]

\* ----------------------------------------------- the tenant access token

\* Line 24: the margin, in seconds, kept before the stored expiry.
ExpiryMargin == 30
\* Line 26: the lifetime, in seconds, given to every token.
TokenLifetime == 7200

\* One request sent to the table service, as recorded in http: the token
\* endpoint ("token") carries no bearer; an authenticated request carries
\* the token and is recorded with the expiry stored when it was sent and
\* with the time read by the check of its operation (line 22).
Http(op, outcome, token, expiry, at) ==
    [op |-> op, outcome |-> outcome, token |-> token, expiry |-> expiry, at |-> at]

\* A mutant of NeedsRefresh: the margin is left out of the comparison.
NeedsRefresh_NoMargin ==
    \/ access_token = None
    \/ now > token_expiry_time

\* Line 24: not self.access_token or current_time + 30 > self.token_expiry_time.
NeedsRefresh ==
    \/ access_token = None
    \/ now + ExpiryMargin > token_expiry_time

\* A mutant of Issued: the expiry is computed without the lifetime.
Issued_NoLifetime ==
    [token |-> Some(now), expiry |-> now, raised |-> FALSE,
     reqs |-> <<Http("token", "ok", None, token_expiry_time, now)>>]

\* Lines 25-26 with _get_access_token answering code 0 (line 40): the new
\* token (named here by the time it was issued at) and current_time + 7200.
Issued ==
    [token |-> Some(now), expiry |-> now + TokenLifetime, raised |-> FALSE,
     reqs |-> <<Http("token", "ok", None, token_expiry_time, now)>>]

\* A mutant of NotIssued: a failed token request clears the held token.
NotIssued_ClearsToken ==
    [token |-> None, expiry |-> token_expiry_time, raised |-> TRUE,
     reqs |-> <<Http("token", "raises", None, token_expiry_time, now)>>]

\* Line 25 with _get_access_token raising (line 44, or the transport): the
\* assignments of lines 25-26 are not reached.
NotIssued ==
    [token |-> access_token, expiry |-> token_expiry_time, raised |-> TRUE,
     reqs |-> <<Http("token", "raises", None, token_expiry_time, now)>>]

\* _refresh_access_token (lines 20-27): what it can leave behind.
RefreshOutcomes ==
    IF NeedsRefresh
    THEN {Issued, NotIssued}
    ELSE {[token |-> access_token, expiry |-> token_expiry_time, raised |-> FALSE,
           reqs |-> <<>>]}

\* One authenticated operation of the table client (search_records,
\* add_record, batch_add_records, update_record, batch_update_records,
\* delete_record): headers=self._get_headers() runs the refresh first
\* (line 48); when that raises nothing is sent ("auth_raises"), otherwise
\* the request goes out with the stored token and ends in one of
\* UpdateOutcomes.
TableRequest(op) ==
    {[token |-> r.token, expiry |-> r.expiry, outcome |-> "auth_raises", reqs |-> r.reqs] :
        r \in {x \in RefreshOutcomes : x.raised}}
    \cup
    {[token |-> q[1].token, expiry |-> q[1].expiry, outcome |-> q[2],
      reqs |-> Append(q[1].reqs, Http(op, q[2], q[1].token, q[1].expiry, now))] :
        q \in {x \in RefreshOutcomes : ~x.raised} \X UpdateOutcomes}

\* The state the client is changed to by one operation.
Sent(q) ==
    /\ access_token' = q.token
    /\ token_expiry_time' = q.expiry
    /\ http' = http \o q.reqs
    /\ UNCHANGED now

\* The client after a construction at time 0 that was given a token.
ClientReady ==
    /\ access_token = Some(0)
    /\ token_expiry_time = TokenLifetime
    /\ now = 0
    /\ http = <<>>

\* The script is not running.
MainIdle ==
    /\ records = <<>>
    /\ mpc = "idle"
    /\ china_fund_codes = <<>>
    /\ us_stock_codes = <<>>

\* Lines 173-180: the batch covers every row of the code, in list order.
batch_records(code) == code_records_dict[code]

\* The resolvers are not running.
ResIdle ==
    /\ ticker = <<>>
    /\ fund_code = 0
    /\ alpha_vantage_key = FALSE
    /\ world = <<>>
    /\ result_dict = <<>>
    /\ i = 0
    /\ deg_idx = 0
    /\ rpc = "idle"
    /\ log = <<>>
    /\ ret = None

\* The arguments of batch_update_records_by_code: at most MaxCodes codes
\* with at most MaxRows rows each, and a price for any of the codes.
UpdInputs ==
    UNION {
      UNION {
        {[keys    |-> [k \in 1..n |-> k],
          records |-> [c \in 1..n |-> [r \in 1..rows[c] |-> RecId(c, r)]],
          prices  |-> f] : f \in UNION {[priced -> Prices] : priced \in SUBSET (1..n)}}
        : rows \in [1..n -> 0..MaxRows]}
      : n \in 0..MaxCodes}

UpdInit ==
    /\ ResIdle
    /\ ClientReady
    /\ MainIdle
    /\ \E x \in UpdInputs :
          /\ code_keys = x.keys
          /\ code_records_dict = x.records
          /\ code_price_dict = x.prices
    /\ total_updated = 0
    /\ total_failed = 0
    /\ upc = "loop"
    /\ code_idx = 1
    /\ row_idx = 0
    /\ calls = <<>>
    /\ returned = None

\* A mutant of SkipCode: the rows of a code without a price count as
\* failed.
SkipCode_CountsFailed ==
    /\ upc = "loop"
    /\ code_idx <= Len(code_keys)
    /\ code_keys[code_idx] \notin DOMAIN code_price_dict
    /\ code_idx' = code_idx + 1
    /\ total_failed' = total_failed + Len(code_records_dict[code_keys[code_idx]])
    /\ UNCHANGED <<code_keys, code_records_dict, code_price_dict, total_updated,
                   upc, row_idx, calls, returned>>
    /\ UNCHANGED <<resVars, cliVars, mainVars>>

\* Lines 165-168: a code without a price is skipped.
SkipCode ==
    /\ upc = "loop"
    /\ code_idx <= Len(code_keys)
    /\ code_keys[code_idx] \notin DOMAIN code_price_dict
    /\ code_idx' = code_idx + 1
    /\ UNCHANGED <<code_keys, code_records_dict, code_price_dict, total_updated,
                   total_failed, upc, row_idx, calls, returned>>
    /\ UNCHANGED <<resVars, cliVars, mainVars>>

\* A mutant of BatchUpdateOk: after the batch call succeeded the rows of the
\* code are still updated one by one.
BatchUpdateOk_ThenRows ==
    /\ upc = "loop"
    /\ code_idx <= Len(code_keys)
    /\ code_keys[code_idx] \in DOMAIN code_price_dict
    /\ LET code == code_keys[code_idx] IN
          /\ \E q \in TableRequest("batch_update_records") :
                /\ q.outcome = "ok"
                /\ Sent(q)
                /\ calls' = Append(calls, Call("batch_update_records", code,
                                               batch_records(code), code_price_dict[code], "ok"))
          /\ total_updated' = total_updated + Len(code_records_dict[code])
    /\ IF Len(code_records_dict[code_keys[code_idx]]) = 0
       THEN /\ code_idx' = code_idx + 1
            /\ UNCHANGED <<upc, row_idx>>
       ELSE /\ upc' = "rows"
            /\ row_idx' = 1
            /\ UNCHANGED code_idx
    /\ UNCHANGED <<code_keys, code_records_dict, code_price_dict,
                   total_failed, returned>>
    /\ UNCHANGED <<resVars, mainVars>>

\* Lines 182-186: the batch call succeeds and all rows of the code count
\* as updated.
BatchUpdateOk ==
    /\ upc = "loop"
    /\ code_idx <= Len(code_keys)
    /\ code_keys[code_idx] \in DOMAIN code_price_dict
    /\ LET code == code_keys[code_idx] IN
          /\ \E q \in TableRequest("batch_update_records") :
                /\ q.outcome = "ok"
                /\ Sent(q)
                /\ calls' = Append(calls, Call("batch_update_records", code,
                                               batch_records(code), code_price_dict[code], "ok"))
          /\ total_updated' = total_updated + Len(code_records_dict[code])
    /\ code_idx' = code_idx + 1
    /\ UNCHANGED <<code_keys, code_records_dict, code_price_dict,
                   total_failed, upc, row_idx, returned>>
    /\ UNCHANGED <<resVars, mainVars>>

\* A mutant of BatchUpdateFails: the exception of the batch call is not
\* caught and leaves the operation.
BatchUpdateFails_Propagates ==
    /\ upc = "loop"
    /\ code_idx <= Len(code_keys)
    /\ code_keys[code_idx] \in DOMAIN code_price_dict
    /\ LET code == code_keys[code_idx] IN
          \E q \in TableRequest("batch_update_records") :
             /\ q.outcome # "ok"
             /\ Sent(q)
             /\ calls' = Append(calls, Call("batch_update_records", code,
                                            batch_records(code), code_price_dict[code],
                                            q.outcome))
    /\ upc' = "raised"
    /\ UNCHANGED <<code_keys, code_records_dict, code_price_dict, total_updated,
                   total_failed, code_idx, row_idx, returned>>
    /\ UNCHANGED <<resVars, mainVars>>

\* Lines 182-191: the batch call raises; the except clause starts the
\* row-by-row loop over the same record_list.
BatchUpdateFails ==
    /\ upc = "loop"
    /\ code_idx <= Len(code_keys)
    /\ code_keys[code_idx] \in DOMAIN code_price_dict
    /\ LET code == code_keys[code_idx] IN
          \E q \in TableRequest("batch_update_records") :
             /\ q.outcome # "ok"
             /\ Sent(q)
             /\ calls' = Append(calls, Call("batch_update_records", code,
                                            batch_records(code), code_price_dict[code],
                                            q.outcome))
    /\ IF Len(code_records_dict[code_keys[code_idx]]) = 0
       THEN /\ code_idx' = code_idx + 1
            /\ UNCHANGED <<upc, row_idx>>
       ELSE /\ upc' = "rows"
            /\ row_idx' = 1
            /\ UNCHANGED code_idx
    /\ UNCHANGED <<code_keys, code_records_dict, code_price_dict, total_updated,
                   total_failed, returned>>
    /\ UNCHANGED <<resVars, mainVars>>

\* The end of one iteration of the inner loop (line 191): the next row, or
\* the next code after the last row.
NextRow ==
    IF row_idx < Len(code_records_dict[code_keys[code_idx]])
    THEN /\ row_idx' = row_idx + 1
         /\ UNCHANGED <<upc, code_idx>>
    ELSE /\ upc' = "loop"
         /\ code_idx' = code_idx + 1
         /\ row_idx' = 0

\* A mutant of UpdateRowOk: the row that was updated is counted in both
\* counts.
UpdateRowOk_CountsBoth ==
    /\ upc = "rows"
    /\ LET code == code_keys[code_idx]
           rid == code_records_dict[code][row_idx]
       IN  \E q \in TableRequest("update_record") :
              /\ q.outcome = "ok"
              /\ Sent(q)
              /\ calls' = Append(calls, Call("update_record", code, <<rid>>,
                                             code_price_dict[code], "ok"))
    /\ total_updated' = total_updated + 1
    /\ total_failed' = total_failed + 1
    /\ NextRow
    /\ UNCHANGED <<code_keys, code_records_dict, code_price_dict, returned>>
    /\ UNCHANGED <<resVars, mainVars>>

\* Lines 192-195: update_record succeeds for the row.
UpdateRowOk ==
    /\ upc = "rows"
    /\ LET code == code_keys[code_idx]
           rid == code_records_dict[code][row_idx]
       IN  \E q \in TableRequest("update_record") :
              /\ q.outcome = "ok"
              /\ Sent(q)
              /\ calls' = Append(calls, Call("update_record", code, <<rid>>,
                                             code_price_dict[code], "ok"))
    /\ total_updated' = total_updated + 1
    /\ NextRow
    /\ UNCHANGED <<code_keys, code_records_dict, code_price_dict,
                   total_failed, returned>>
    /\ UNCHANGED <<resVars, mainVars>>

\* A mutant of UpdateRowFails: the first failing row ends the loop over the
\* rows of the code (a break in the except clause).
UpdateRowFails_Breaks ==
    /\ upc = "rows"
    /\ LET code == code_keys[code_idx]
           rid == code_records_dict[code][row_idx]
       IN  \E q \in TableRequest("update_record") :
              /\ q.outcome # "ok"
              /\ Sent(q)
              /\ calls' = Append(calls, Call("update_record", code, <<rid>>,
                                             code_price_dict[code], q.outcome))
    /\ total_failed' = total_failed + 1
    /\ upc' = "loop"
    /\ code_idx' = code_idx + 1
    /\ row_idx' = 0
    /\ UNCHANGED <<code_keys, code_records_dict, code_price_dict,
                   total_updated, returned>>
    /\ UNCHANGED <<resVars, mainVars>>

\* Lines 192-198: update_record raises for the row; the failure is counted
\* and the loop goes on.
UpdateRowFails ==
    /\ upc = "rows"
    /\ LET code == code_keys[code_idx]
           rid == code_records_dict[code][row_idx]
       IN  \E q \in TableRequest("update_record") :
              /\ q.outcome # "ok"
              /\ Sent(q)
              /\ calls' = Append(calls, Call("update_record", code, <<rid>>,
                                             code_price_dict[code], q.outcome))
    /\ total_failed' = total_failed + 1
    /\ NextRow
    /\ UNCHANGED <<code_keys, code_records_dict, code_price_dict,
                   total_updated, returned>>
    /\ UNCHANGED <<resVars, mainVars>>

\* Lines 200-201: the loop is over, the counts are returned.
UpdReturn ==
    /\ upc = "loop"
    /\ code_idx > Len(code_keys)
    /\ upc' = "done"
    /\ returned' = <<total_updated, total_failed>>
    /\ UNCHANGED <<code_keys, code_records_dict, code_price_dict, total_updated,
                   total_failed, code_idx, row_idx, calls>>
    /\ UNCHANGED <<resVars, cliVars, mainVars>>

UpdNext ==
    \/ SkipCode
    \/ BatchUpdateOk
    \/ BatchUpdateFails
    \/ UpdateRowOk
    \/ UpdateRowFails
    \/ UpdReturn

SpecUpd == UpdInit /\ [][UpdNext]_vars

\* ---------------------------------------------- properties of the bulk update

\* The requests of one kind made for a code so far, in the order made.
CallsOf(op, code) == SelectSeq(calls, LAMBDA c : c.op = op /\ c.code = code)

\* The record ids of the update_record calls made for a code, in order.
RowCallIds(code) ==
    LET cs == CallsOf("update_record", code) IN [j \in 1..Len(cs) |-> cs[j].rids[1]]

BatchFailed(code) ==
    \E j \in 1..Len(calls) : /\ calls[j].op = "batch_update_records"
                             /\ calls[j].code = code
                             /\ calls[j].outcome # "ok"

BatchSucceeded(code) ==
    \E j \in 1..Len(calls) : /\ calls[j].op = "batch_update_records"
                             /\ calls[j].code = code
                             /\ calls[j].outcome = "ok"

\* The outer loop is past the code: everything done for it has been done.
CodeFinished(code) ==
    \E k \in 1..Len(code_keys) : code_keys[k] = code /\ (code_idx > k \/ upc = "done")

PricedKeys == {code_keys[k] : k \in 1..Len(code_keys)} \cap DOMAIN code_price_dict

\* The rows updated by successful batch calls, and the single-row calls by
\* outcome.
RowsUpdatedInBatch ==
    SumSeq([j \in 1..Len(calls) |->
              IF calls[j].op = "batch_update_records" /\ calls[j].outcome = "ok"
              THEN Len(calls[j].rids) ELSE 0])

RowCalls(ok) ==
    Cardinality({j \in 1..Len(calls) : /\ calls[j].op = "update_record"
                                       /\ (calls[j].outcome = "ok") = ok})

\* C1: for every identifier that has a price and whose batch call failed,
\* update_record is called exactly once for every row of that identifier, in
\* list order (a failing row does not stop the rows after it), and every such
\* call adds 1 to the updated count when it succeeds and 1 to the failed
\* count when it fails.
C1_RowsRetriedIndividually ==
    /\ \A code \in PricedKeys :
          BatchFailed(code) =>
             LET ids == RowCallIds(code) IN
             /\ Len(ids) <= Len(code_records_dict[code])
             /\ ids = SubSeq(code_records_dict[code], 1, Len(ids))
             /\ CodeFinished(code) => ids = code_records_dict[code]
    /\ total_updated = RowsUpdatedInBatch + RowCalls(TRUE)
    /\ total_failed = RowCalls(FALSE)

\* Reached: a batch call failed for a code with two rows, its first row then
\* failed and its second row was still attempted and succeeded.
C1_Witness ==
    /\ upc = "done"
    /\ \E code \in PricedKeys :
          /\ BatchFailed(code)
          /\ Len(code_records_dict[code]) = 2
          /\ LET cs == CallsOf("update_record", code) IN
                /\ Len(cs) = 2
                /\ cs[1].outcome # "ok"
                /\ cs[2].outcome = "ok"
    /\ total_updated = 1
    /\ total_failed = 1

\* C2: the bulk update never aborts on one identifier's failure: whatever the
\* outcomes of the batch and single-row calls, no exception leaves the
\* operation, it always has a next step until it has returned, and when it has
\* returned every priced identifier of the records map was attempted with
\* exactly one batch call and the returned pair is the cumulative count over
\* all identifiers.
C2_NeverAborts ==
    /\ upc # "raised"
    /\ upc # "done" => ENABLED UpdNext
    /\ upc = "done" =>
          /\ \A code \in PricedKeys :
                Len(CallsOf("batch_update_records", code)) = 1
          /\ returned = << SumSeq([k \in 1..Len(code_keys) |->
                                     IF code_keys[k] \in PricedKeys /\ BatchSucceeded(code_keys[k])
                                     THEN Len(code_records_dict[code_keys[k]]) ELSE 0])
                           + RowCalls(TRUE),
                           RowCalls(FALSE) >>

\* Reached: the first identifier's batch call and one of its rows failed, and
\* the second identifier was still attempted, its batch call succeeding.
C2_Witness ==
    /\ upc = "done"
    /\ Len(code_keys) = 2
    /\ PricedKeys = {1, 2}
    /\ BatchFailed(code_keys[1])
    /\ RowCalls(FALSE) > 0
    /\ BatchSucceeded(code_keys[2])
    /\ returned[2] > 0

\* =========================================================================
\* Stock price resolver: get_us_stock_price, _get_single_us_stock_price
\* =========================================================================

\* Line 236.
batch_size == 8
\* time.sleep(60), line 259, in tenths of a second.
RateLimitSleep == 600
\* time.sleep(0.5), line 301.
GroupDelay == 5
\* time.sleep(1.5), line 345.
PrimaryPause == 15

\* The bulk update is not running.
UpdIdle ==
    /\ code_keys = <<>>
    /\ code_records_dict = <<>>
    /\ code_price_dict = <<>>
    /\ total_updated = 0
    /\ total_failed = 0
    /\ upc = "idle"
    /\ code_idx = 0
    /\ row_idx = 0
    /\ calls = <<>>
    /\ returned = None

\* The symbols a run may ask about.
Symbols == 1..MaxTickers

\* One entry of log: a provider request (op "batch", "single", "primary",
\* "fallback", "charts", "eastmoney") with what it was about and how it
\* ended, or a sleep with its length.
Ev(op, arg, res, syms) == [op |-> op, arg |-> arg, res |-> res, syms |-> syms]

Sleep(d) == Ev("sleep", d, "", <<>>)

\* What a provider says about one symbol, reduced to what the code reads.
Answer(kind, price) == [kind |-> kind, price |-> price]

\* The batch provider's entry for a symbol (lines 277-297): a "price" field
\* that float() parses (any sign), an entry without price or with status
\* "error", no entry at all, or a price that float() rejects.
BatchAnswers(t) ==
    << Answer("price", 100 + t), Answer("price", 0), Answer("error", 0),
       Answer("absent", 0), Answer("unparsable", 0), Answer("price", 0 - t) >>

\* The primary provider's response (lines 336-354): a non-empty "Global
\* Quote" whose "05. price" parses (0 when the field is missing), a "Note"
\* (rate limit), any other body, or an exception of the request or the parse.
PrimaryAnswers(t) ==
    << Answer("quote", 200 + t), Answer("note", 0), Answer("quote", 0),
       Answer("other", 0), Answer("raises", 0), Answer("quote", 0 - t) >>

\* The fallback provider's response (lines 358-373): code 200 with data whose
\* "close" parses (0 when the field is missing), any other body, or an
\* exception.
FallbackAnswers(t) ==
    << Answer("ok", 300 + t), Answer("error", 0), Answer("ok", 0),
       Answer("raises", 0), Answer("ok", 0 - t) >>

Pick(list, n) == list[(n % Len(list)) + 1]

\* The provider behaviours a batch run is checked against: every kind of
\* answer occurs for some symbol, and the worlds shift which symbol gets which.
TableWorld(w) ==
    [quote    |-> [t \in Symbols |-> Pick(BatchAnswers(t), t + w)],
     primary  |-> [t \in Symbols |-> Pick(PrimaryAnswers(t), t + 5 * w)],
     fallback |-> [t \in Symbols |-> Pick(FallbackAnswers(t), t + 3 * w)]]

\* Lines 321-373: the single-identifier chain, as the value it returns and
\* the requests and sleeps it makes. The primary is asked only when a key is
\* configured (line 333) and answers the call only with a price > 0 (line
\* 344); everything else falls through to the fallback, whose close price is
\* returned as it is (lines 366-367).
SingleUS(t) ==
    LET p == world.primary[t]
        asked == IF alpha_vantage_key THEN <<Ev("primary", t, p.kind, <<>>)>> ELSE <<>>
    IN  IF alpha_vantage_key /\ p.kind = "quote" /\ p.price > 0
        THEN [ret |-> Some(p.price), events |-> asked \o <<Sleep(PrimaryPause)>>]
        ELSE LET f == world.fallback[t] IN
             [ret    |-> IF f.kind = "ok" THEN Some(f.price) ELSE None,
              events |-> asked \o <<Ev("fallback", t, f.kind, <<>>)>>]

\* A mutant of Batch: the slice loses its last symbol.
Batch_Short(start) == SubSeq(ticker, start + 1, Min(start + batch_size - 1, Len(ticker)))

\* Line 240: ticker[i:i + batch_size].
Batch(start) == SubSeq(ticker, start + 1, Min(start + batch_size, Len(ticker)))

\* A mutant of StoreGroup: every price the response body carries is stored,
\* whether or not its symbol is in the group.
StoreGroup_WholeBody(rd, batch, n) ==
    [t \in {u \in Symbols : world.quote[u].kind = "price"} |-> world.quote[t].price] @@ rd

\* Lines 273-297: the prices the response body yields for the symbols of the
\* group. A one-symbol group reads the top-level "price" (line 278), a larger
\* group the entry under the symbol (lines 286-288); the parsed price is
\* stored without a test of its sign (lines 281, 291).
RECURSIVE StoreGroup(_, _, _)
StoreGroup(rd, batch, n) ==
    IF n > Len(batch) THEN rd
    ELSE LET code == batch[n]
             a == world.quote[code]
             found == IF Len(batch) = 1
                      THEN a.kind = "price"
                      ELSE a.kind # "absent" /\ a.kind = "price"
         IN  StoreGroup(IF found THEN (code :> a.price) @@ rd ELSE rd, batch, n + 1)

\* A mutant of SleepOnRateLimit: the retry is sent at once.
SleepOnRateLimit_None == <<>>

\* Lines 256-259: the wait before the retry.
SleepOnRateLimit == <<Sleep(RateLimitSleep)>>

\* Lines 299-301: the pause after a group that was answered, when another
\* group follows.
DelayBetweenGroups == IF i + batch_size < Len(ticker) THEN <<Sleep(GroupDelay)>> ELSE <<>>

StockInit ==
    /\ UpdIdle
    /\ ClientReady
    /\ MainIdle
    /\ \E n \in 0..MaxTickers : ticker = [j \in 1..n |-> j]
    /\ fund_code = 0
    /\ alpha_vantage_key \in BOOLEAN
    /\ \E w \in 0..MaxWorld : world = TableWorld(w)
    /\ result_dict = <<>>
    /\ i = 0
    /\ deg_idx = 0
    /\ rpc = "request"
    /\ log = <<>>
    /\ ret = None

\* Lines 247-250, 303-307: the request of the group (or the parse of its
\* response) raises; the except clause degrades to single lookups.
GroupRaises ==
    /\ rpc = "request"
    /\ i < Len(ticker)
    /\ log' = Append(log, Ev("batch", i, "raises", Batch(i)))
    /\ rpc' = "degrade"
    /\ deg_idx' = 1
    /\ UNCHANGED <<ticker, fund_code, alpha_vantage_key, world, result_dict, i, ret>>
    /\ UNCHANGED <<updVars, cliVars, mainVars>>

\* Lines 247-259: the response carries code 429; sleep, then retry.
GroupRateLimited ==
    /\ rpc = "request"
    /\ i < Len(ticker)
    /\ log' = Append(log, Ev("batch", i, "429", Batch(i))) \o SleepOnRateLimit
    /\ rpc' = "retry"
    /\ UNCHANGED <<ticker, fund_code, alpha_vantage_key, world, result_dict, i,
                   deg_idx, ret>>
    /\ UNCHANGED <<updVars, cliVars, mainVars>>

\* Lines 247-301: the response is a body; its prices are stored, and the
\* loop moves to the next group after the pause.
GroupAnswered ==
    /\ rpc = "request"
    /\ i < Len(ticker)
    /\ log' = Append(log, Ev("batch", i, "body", Batch(i))) \o DelayBetweenGroups
    /\ result_dict' = StoreGroup(result_dict, Batch(i), 1)
    /\ i' = i + batch_size
    /\ UNCHANGED <<ticker, fund_code, alpha_vantage_key, world, deg_idx, rpc, ret>>
    /\ UNCHANGED <<updVars, cliVars, mainVars>>

\* Lines 263-264: the retry raises.
RetryRaises ==
    /\ rpc = "retry"
    /\ log' = Append(log, Ev("batch", i, "raises", Batch(i)))
    /\ rpc' = "degrade"
    /\ deg_idx' = 1
    /\ UNCHANGED <<ticker, fund_code, alpha_vantage_key, world, result_dict, i, ret>>
    /\ UNCHANGED <<updVars, cliVars, mainVars>>

\* Lines 263-270, 303-307: the retry carries 429 again; the code raises
\* Exception inside the try block, and the same except clause that handles
\* a failed request catches it and degrades to single lookups.
RetryRateLimited ==
    /\ rpc = "retry"
    /\ log' = Append(log, Ev("batch", i, "429", Batch(i)))
    /\ rpc' = "degrade"
    /\ deg_idx' = 1
    /\ UNCHANGED <<ticker, fund_code, alpha_vantage_key, world, result_dict, i, ret>>
    /\ UNCHANGED <<updVars, cliVars, mainVars>>

\* Lines 263-301: the retry is answered with a body.
RetryAnswered ==
    /\ rpc = "retry"
    /\ log' = Append(log, Ev("batch", i, "body", Batch(i))) \o DelayBetweenGroups
    /\ result_dict' = StoreGroup(result_dict, Batch(i), 1)
    /\ i' = i + batch_size
    /\ rpc' = "request"
    /\ UNCHANGED <<ticker, fund_code, alpha_vantage_key, world, deg_idx, ret>>
    /\ UNCHANGED <<updVars, cliVars, mainVars>>

\* Lines 307-314: one iteration of the degraded loop: the single-identifier
\* chain for the symbol, its result stored unless it is None. After the last
\* symbol the for loop of line 239 goes on (no pause: line 301 is inside the
\* try block that was left).
DegradeTicker ==
    /\ rpc = "degrade"
    /\ LET code == Batch(i)[deg_idx]
           r == SingleUS(code)
       IN  /\ log' = Append(log, Ev("single", code, IF r.ret = None THEN "none" ELSE "price", <<>>))
                     \o r.events
           /\ result_dict' = IF r.ret # None THEN (code :> r.ret[1]) @@ result_dict
                             ELSE result_dict
    /\ IF deg_idx < Len(Batch(i))
       THEN /\ deg_idx' = deg_idx + 1
            /\ UNCHANGED <<i, rpc>>
       ELSE /\ deg_idx' = 0
            /\ i' = i + batch_size
            /\ rpc' = "request"
    /\ UNCHANGED <<ticker, fund_code, alpha_vantage_key, world, ret>>
    /\ UNCHANGED <<updVars, cliVars, mainVars>>

\* Line 316.
StockReturn ==
    /\ rpc = "request"
    /\ i >= Len(ticker)
    /\ rpc' = "done"
    /\ ret' = result_dict
    /\ UNCHANGED <<ticker, fund_code, alpha_vantage_key, world, result_dict, i,
                   deg_idx, log>>
    /\ UNCHANGED <<updVars, cliVars, mainVars>>

StockNext ==
    \/ GroupRaises
    \/ GroupRateLimited
    \/ GroupAnswered
    \/ RetryRaises
    \/ RetryRateLimited
    \/ RetryAnswered
    \/ DegradeTicker
    \/ StockReturn

SpecStock == StockInit /\ [][StockNext]_vars

\* ------------------------------------------- the single-identifier stock call

\* Every response the two single-symbol providers can give about a symbol.
SetOf(list) == {list[n] : n \in 1..Len(list)}

\* Lines 317-319: get_us_stock_price with one symbol, against any pair of
\* provider responses.
SingleInit ==
    /\ UpdIdle
    /\ ClientReady
    /\ MainIdle
    /\ ticker \in Symbols
    /\ fund_code = 0
    /\ alpha_vantage_key \in BOOLEAN
    /\ \E p \in SetOf(PrimaryAnswers(ticker)), f \in SetOf(FallbackAnswers(ticker)) :
          world = [quote    |-> <<>>,
                   primary  |-> [t \in {ticker} |-> p],
                   fallback |-> [t \in {ticker} |-> f]]
    /\ result_dict = <<>>
    /\ i = 0
    /\ deg_idx = 0
    /\ rpc = "call"
    /\ log = <<>>
    /\ ret = None

\* Line 319: return self._get_single_us_stock_price(ticker, exchange).
SingleCall ==
    /\ rpc = "call"
    /\ LET r == SingleUS(ticker) IN
          /\ ret' = r.ret
          /\ log' = r.events
    /\ rpc' = "done"
    /\ UNCHANGED <<ticker, fund_code, alpha_vantage_key, world, result_dict, i, deg_idx>>
    /\ UNCHANGED <<updVars, cliVars, mainVars>>

SingleNext == SingleCall

SpecSingle == SingleInit /\ [][SingleNext]_vars

\* =========================================================================
\* Fund price resolver: _get_single_china_fund_price
\* =========================================================================

\* A mutant of exchanges: the two exchange suffixes change places.
exchanges_Swapped == <<".SZ", ".SS", "">>

\* Lines 491-495: the suffixes tried with the charts provider, in order.
exchanges == <<".SS", ".SZ", "">>

\* The charts provider's response to the n-th variant (lines 505-516): a
\* result with meta.regularMarketPrice (returned whatever its sign), a
\* response without it (or a status other than 200), or an exception.
ChartAnswers(n) ==
    {Answer("price", 400 + n), Answer("price", 0), Answer("price", 0 - n),
     Answer("nodata", 0), Answer("raises", 0)}

\* The fallback provider's response (lines 519-541): a page whose last
\* Data_netWorthTrend element has a "y" (returned whatever its sign), a page
\* without it (or a status other than 200), or an exception.
EastmoneyAnswers ==
    {Answer("price", 500), Answer("price", 0), Answer("nodata", 0), Answer("raises", 0)}

\* Lines 498-516, against what the providers answer about this code: the
\* loop over the variants; it returns on the first price
\* and goes on after a response without price or an exception. Lines 518-545:
\* after the last variant the fallback provider, then None.
RECURSIVE TryCharts(_, _, _)
TryCharts(code, n, events) ==
    IF n > Len(exchanges)
    THEN LET e == world.eastmoney[code] IN
         [ret    |-> IF e.kind = "price" THEN Some(e.price) ELSE None,
          events |-> Append(events, Ev("eastmoney", code, e.kind, <<>>))]
    ELSE LET a == world.charts[code][exchanges[n]]
             evs == Append(events, Ev("charts", code, a.kind, <<exchanges[n]>>))
         IN  IF a.kind = "price"
             THEN [ret |-> Some(a.price), events |-> evs]
             ELSE TryCharts(code, n + 1, evs)

SingleFund(code) == TryCharts(code, 1, <<>>)

FundInit ==
    /\ UpdIdle
    /\ ClientReady
    /\ MainIdle
    /\ ticker = <<>>
    /\ fund_code \in 1..MaxFunds
    /\ alpha_vantage_key = FALSE
    /\ \E a1 \in ChartAnswers(1), a2 \in ChartAnswers(2), a3 \in ChartAnswers(3),
          e \in EastmoneyAnswers :
          world = [charts    |-> [c \in {fund_code} |->
                                     (".SS" :> a1) @@ (".SZ" :> a2) @@ ("" :> a3)],
                   eastmoney |-> [c \in {fund_code} |-> e]]
    /\ result_dict = <<>>
    /\ i = 0
    /\ deg_idx = 0
    /\ rpc = "call"
    /\ log = <<>>
    /\ ret = None

\* Line 478: return self._get_single_china_fund_price(fund_code).
FundCall ==
    /\ rpc = "call"
    /\ LET r == SingleFund(fund_code) IN
          /\ ret' = r.ret
          /\ log' = r.events
    /\ rpc' = "done"
    /\ UNCHANGED <<ticker, fund_code, alpha_vantage_key, world, result_dict, i, deg_idx>>
    /\ UNCHANGED <<updVars, cliVars, mainVars>>

FundNext == FundCall

SpecFund == FundInit /\ [][FundNext]_vars

\* =========================================================================
\* Fund price resolver: get_china_fund_price with a list (lines 387-475)
\* =========================================================================

\* Identifiers are sequences of characters. The codes a list may hold: one
\* for each branch of lines 400-406 and for each leading character those
\* lines name, and one that is not a number.
FundUniverse ==
    << <<"6", "0">>, <<"5", "1">>, <<"0", "0">>, <<"1", "6">>, <<"9", "0">>, <<"A">> >>

\* Where a code stands in FundUniverse.
FundIndex(code) == CHOOSE n \in 1..Len(FundUniverse) : FundUniverse[n] = code

\* str.startswith with a one-character prefix.
startswith(code, ch) == Len(code) > 0 /\ code[1] = ch

\* A mutant of Prefixed: codes that start with '5' get the other prefix.
Prefixed_FiveIsSz(code) ==
    IF startswith(code, "6")
    THEN <<"sh", code>>
    ELSE <<"sz", code>>

\* Lines 400-406: the exchange prefix put in front of the code; the prefixed
\* symbol f"sh{code}" is the pair of its prefix and the code.
Prefixed(code) ==
    IF startswith(code, "6") \/ startswith(code, "5")
    THEN <<"sh", code>>
    ELSE IF \/ startswith(code, "0") \/ startswith(code, "1")
            \/ startswith(code, "2") \/ startswith(code, "3")
         THEN <<"sz", code>>
         ELSE <<"sz", code>>

\* Lines 395-409: prefixed_codes, in input order.
prefixed_codes(list) == [n \in 1..Len(list) |-> Prefixed(list[n])]

\* Lines 396-409: code_mapping, filled one code after the other (a later
\* code with the same prefixed symbol would replace the earlier one).
RECURSIVE code_mapping(_, _)
code_mapping(list, n) ==
    IF n = 0 THEN <<>>
    ELSE (Prefixed(list[n]) :> list[n]) @@ code_mapping(list, n - 1)

\* One line of the provider's response, reduced to what lines 428-451 read:
\* the symbol between 'v_' and '="', and the fourth '~' field, which is a
\* number ("price"), a text float() rejects ("unparsable"), or missing
\* because the line has no '~' or at most three fields ("short").
Line(sym, kind, price) == [sym |-> sym, kind |-> kind, price |-> price]

\* What the response can say about the code at position n of the list.
BodyKindList ==
    <<"price", "absent", "zero", "negative", "unparsable", "short", "other_symbol">>

BodyKinds == Range(BodyKindList)

LinesFor(code, kind, n) ==
    IF kind = "absent" THEN <<>>
    ELSE IF kind = "price" THEN << Line(Prefixed(code), "price", 600 + n) >>
    ELSE IF kind = "zero" THEN << Line(Prefixed(code), "price", 0) >>
    ELSE IF kind = "negative" THEN << Line(Prefixed(code), "price", 0 - n) >>
    ELSE IF kind = "unparsable" THEN << Line(Prefixed(code), "unparsable", 0) >>
    ELSE IF kind = "short" THEN << Line(Prefixed(code), "short", 0) >>
    ELSE << Line(<<IF Prefixed(code)[1] = "sh" THEN "sz" ELSE "sh", code>>,
                 "price", 700 + n) >>

RECURSIVE Body(_, _, _)
Body(list, kinds, n) ==
    IF n > Len(list) THEN <<>>
    ELSE LinesFor(list[n], kinds[n], n) \o Body(list, kinds, n + 1)

\* Lines 428-451: the response is read line by line; a price is stored
\* under the original code when the line has more than three fields (438),
\* its symbol is in code_mapping (439-440), the fourth field parses (443,
\* the ValueError is caught at 450) and is > 0 (446).
RECURSIVE ParseBody(_, _, _, _)
ParseBody(rd, lines, n, mapping) ==
    IF n > Len(lines) THEN rd
    ELSE LET l == lines[n]
             stored == /\ l.kind # "short"
                       /\ l.sym \in DOMAIN mapping
                       /\ mapping[l.sym] # <<>>
                       /\ l.kind = "price"
                       /\ l.price > 0
         IN  ParseBody(IF stored THEN (mapping[l.sym] :> l.price) @@ rd ELSE rd,
                       lines, n + 1, mapping)

\* The answers of the charts provider and of the fallback provider, listed.
ChartTable(n) ==
    << Answer("nodata", 0), Answer("price", 400 + n), Answer("raises", 0),
       Answer("price", 0), Answer("price", 0 - n) >>

EastmoneyTable ==
    << Answer("price", 500), Answer("nodata", 0), Answer("raises", 0), Answer("price", 0) >>

\* The single-identifier providers a list run is checked against: every kind
\* of answer occurs, and the worlds shift which code gets which.
FundWorld(w) ==
    [charts    |-> [c \in Range(FundUniverse) |->
                      [s \in Range(exchanges) |->
                          LET n == CHOOSE m \in 1..Len(exchanges) : exchanges[m] = s
                          IN  Pick(ChartTable(n), FundIndex(c) + n * w)]],
     eastmoney |-> [c \in Range(FundUniverse) |->
                      Pick(EastmoneyTable, FundIndex(c) + w)]]

\* The lists of distinct codes of at most MaxFundList codes. A run is
\* checked against every body with the first world of the single-identifier
\* providers, and against every such world with an empty body: the parse
\* (FundBatchAnswered) reads only the body, the degraded loop (FundDegrade)
\* only the single-identifier providers.
FundLists ==
    {l \in UNION {[1..m -> Range(FundUniverse)] : m \in 0..MaxFundList} :
        \A a, b \in 1..Len(l) : a # b => l[a] # l[b]}

FundBatchInit ==
    /\ UpdIdle
    /\ ClientReady
    /\ MainIdle
    /\ ticker = <<>>
    /\ fund_code \in FundLists
    /\ alpha_vantage_key = FALSE
    /\ \/ \E kinds \in [1..Len(fund_code) -> BodyKinds] :
             world = [body |-> Body(fund_code, kinds, 1)] @@ FundWorld(0)
       \/ \E w \in 0..MaxWorld :
             world = [body |-> <<>>] @@ FundWorld(w)
    /\ result_dict = <<>>
    /\ i = 0
    /\ deg_idx = 0
    /\ rpc = "fund_request"
    /\ log = <<>>
    /\ ret = None

\* Lines 414-421 and 464-467: the combined request raises; nothing has been
\* stored, and the except clause starts the loop over fund_code.
FundBatchRaises ==
    /\ rpc = "fund_request"
    /\ log' = Append(log, Ev("gtimg", fund_code, "raises", prefixed_codes(fund_code)))
    /\ rpc' = "fund_degrade"
    /\ deg_idx' = 1
    /\ UNCHANGED <<ticker, fund_code, alpha_vantage_key, world, result_dict, i, ret>>
    /\ UNCHANGED <<updVars, cliVars, mainVars>>

\* A mutant of FundBatchAnswered: after the parse, a body that left a code
\* without price starts the loop of single lookups.
FundBatchAnswered_DegradesMissing ==
    /\ rpc = "fund_request"
    /\ log' = Append(log, Ev("gtimg", fund_code, "body", prefixed_codes(fund_code)))
    /\ result_dict' = ParseBody(result_dict, world.body, 1,
                                code_mapping(fund_code, Len(fund_code)))
    /\ IF SetOf(fund_code) \subseteq DOMAIN result_dict'
       THEN rpc' = "fund_return" /\ UNCHANGED deg_idx
       ELSE rpc' = "fund_degrade" /\ deg_idx' = 1
    /\ UNCHANGED <<ticker, fund_code, alpha_vantage_key, world, i, ret>>
    /\ UNCHANGED <<updVars, cliVars, mainVars>>

\* Lines 414-462: the combined request is answered (whatever its status) and
\* the body is parsed.
FundBatchAnswered ==
    /\ rpc = "fund_request"
    /\ log' = Append(log, Ev("gtimg", fund_code, "body", prefixed_codes(fund_code)))
    /\ result_dict' = ParseBody(result_dict, world.body, 1,
                                code_mapping(fund_code, Len(fund_code)))
    /\ rpc' = "fund_return"
    /\ UNCHANGED <<ticker, fund_code, alpha_vantage_key, world, i, deg_idx, ret>>
    /\ UNCHANGED <<updVars, cliVars, mainVars>>

\* Lines 468-471: one iteration of the loop of the except clause, which
\* goes over every code of fund_code.
FundDegrade ==
    /\ rpc = "fund_degrade"
    /\ deg_idx <= Len(fund_code)
    /\ LET code == fund_code[deg_idx]
           r == SingleFund(code)
       IN  /\ log' = log \o r.events
           /\ result_dict' = IF r.ret # None
                             THEN (code :> r.ret[1]) @@ result_dict
                             ELSE result_dict
    /\ deg_idx' = deg_idx + 1
    /\ UNCHANGED <<ticker, fund_code, alpha_vantage_key, world, i, rpc, ret>>
    /\ UNCHANGED <<updVars, cliVars, mainVars>>

\* Line 475: return result_dict.
FundBatchReturn ==
    /\ \/ rpc = "fund_return"
       \/ rpc = "fund_degrade" /\ deg_idx > Len(fund_code)
    /\ ret' = result_dict
    /\ rpc' = "done"
    /\ UNCHANGED <<ticker, fund_code, alpha_vantage_key, world, result_dict, i,
                   deg_idx, log>>
    /\ UNCHANGED <<updVars, cliVars, mainVars>>

FundBatchNext ==
    \/ FundBatchRaises
    \/ FundBatchAnswered
    \/ FundDegrade
    \/ FundBatchReturn

SpecFundBatch == FundBatchInit /\ [][FundBatchNext]_vars

\* --------------------------------------------------- the two list resolvers

\* A call of either list resolver: get_us_stock_price (lines 229-316) or
\* get_china_fund_price (lines 387-475) with a list.
ResolversInit == StockInit \/ FundBatchInit

ResolversNext == StockNext \/ FundBatchNext

SpecResolvers == ResolversInit /\ [][ResolversNext]_vars

\* ------------------------------------------------ properties of the resolvers

\* The start offsets of the groups of the input.
Groups == {g \in 0..(Len(ticker) - 1) : g % batch_size = 0}

\* The symbols of the group that starts at offset g, by position.
GroupSymbols(g) == {ticker[n] : n \in (g + 1)..Min(g + batch_size, Len(ticker))}

\* Where in log the batch provider was asked about the group at offset g.
BatchRequests(g) == {j \in 1..Len(log) : log[j].op = "batch" /\ log[j].arg = g}

\* The first request of each group.
FirstRequests ==
    {j \in 1..Len(log) : /\ log[j].op = "batch"
                         /\ \A h \in 1..(j - 1) : ~(log[h].op = "batch" /\ log[h].arg = log[j].arg)}

\* The group was answered 429 to its request and to its retry.
RateLimitedTwice(g) ==
    /\ Cardinality(BatchRequests(g)) = 2
    /\ \A j \in BatchRequests(g) : log[j].res = "429"

\* A request of the group (or the parse of its response) raised.
RequestRaised(g) == \E j \in BatchRequests(g) : log[j].res = "raises"

\* The for loop of line 239 is past the group.
GroupFinished(g) == i > g \/ rpc = "done"

\* How often the single-identifier chain was invoked for a symbol.
SingleCalls(t) == Cardinality({j \in 1..Len(log) : log[j].op = "single" /\ log[j].arg = t})

\* C3: a quote with price <= 0 from any provider is treated as NotFound: no
\* single-identifier resolver returns a value <= 0 and no batch resolver
\* stores one, so every value of the result map is strictly positive. (The
\* values the degraded path stores are the single resolver's return values.)
C3_OnlyPositivePrices ==
    \A code \in DOMAIN result_dict : result_dict[code] > 0

\* C4: when the first response and the retry of a group both carry 429 the
\* group is abandoned: no price is recorded for any of its symbols, no
\* further provider is asked about them, and the next group is requested.
C4_RateLimitedGroupAbandoned ==
    \A g \in Groups :
       RateLimitedTwice(g) =>
          /\ \A t \in GroupSymbols(g) :
                /\ t \notin DOMAIN result_dict
                /\ \A j \in 1..Len(log) :
                      log[j].op \in {"single", "primary", "fallback"} => log[j].arg # t
          /\ rpc = "done" => \A h \in Groups : BatchRequests(h) # {}

\* C5: a 429 response to a group's request is followed by a sleep of 60 s and
\* then by one more request for the same group; the batch provider is asked
\* at most twice per group, and a second request comes only after a 429 and
\* the 60 s sleep.
C5_SleepThenRetryOnce ==
    \A g \in Groups :
       /\ Cardinality(BatchRequests(g)) <= 2
       /\ \A j \in BatchRequests(g) :
             IF j \in FirstRequests
             THEN log[j].res = "429" =>
                     /\ j + 1 <= Len(log)
                     /\ log[j + 1] = Sleep(RateLimitSleep)
                     /\ \/ j + 2 \in BatchRequests(g)
                        \/ rpc = "retry" /\ i = g /\ Len(log) = j + 1
             ELSE /\ j > 2
                  /\ j - 2 \in BatchRequests(g)
                  /\ log[j - 2].res = "429"
                  /\ log[j - 1] = Sleep(RateLimitSleep)
                  /\ log[j].syms = log[j - 2].syms

\* Reached: a group was answered 429, and after the sleep its retry was
\* answered with a body.
C5_Witness ==
    /\ rpc = "done"
    /\ \E j \in FirstRequests :
          /\ log[j].res = "429"
          /\ log[j + 1] = Sleep(RateLimitSleep)
          /\ log[j + 2].op = "batch"
          /\ log[j + 2].arg = log[j].arg
          /\ log[j + 2].res = "body"

\* The number of groups requested before position j of log.
GroupsBefore(j) == Cardinality({h \in FirstRequests : h < j})

NoRateLimit == \A j \in 1..Len(log) : log[j].op = "batch" => log[j].res # "429"

\* C6: the n symbols are requested in consecutive groups of 8 in input order,
\* the last group holding the rest; every symbol is in exactly one group; and
\* without a rate-limit signal there is exactly one batch request per group,
\* ceil(n/8) in all.
C6_GroupsOfEight ==
    LET n == Len(ticker) IN
    /\ \A j \in FirstRequests :
          LET g == GroupsBefore(j) IN
          /\ log[j].arg = batch_size * g
          /\ log[j].syms = [m \in 1..Min(batch_size, n - batch_size * g)
                              |-> ticker[batch_size * g + m]]
    /\ rpc = "done" =>
          /\ Cardinality(FirstRequests) = (n + batch_size - 1) \div batch_size
          /\ \A t \in Range(ticker) :
                Cardinality({j \in FirstRequests : t \in Range(log[j].syms)}) = 1
          /\ NoRateLimit =>
                Cardinality({j \in 1..Len(log) : log[j].op = "batch"})
                   = (n + batch_size - 1) \div batch_size

\* Reached: 10 symbols, no rate-limit signal, and two batch requests, for 8
\* and for 2 symbols.
C6_Witness ==
    /\ rpc = "done"
    /\ Len(ticker) = 10
    /\ NoRateLimit
    /\ LET reqs == SelectSeq(log, LAMBDA e : e.op = "batch") IN
          /\ Len(reqs) = 2
          /\ reqs[1].syms = <<1, 2, 3, 4, 5, 6, 7, 8>>
          /\ reqs[2].syms = <<9, 10>>

\* C7: before the request of every group but the first there is a 0.5 s
\* pause, whatever became of the group before it (priced, no data, or failed
\* and degraded to single lookups), and there is none after the last group.
C7_DelayBetweenAllGroups ==
    /\ \A j \in FirstRequests :
          log[j].arg > 0 => log[j - 1] = Sleep(GroupDelay)
    /\ rpc = "done" /\ log # <<>> => log[Len(log)] # Sleep(GroupDelay)

\* C8: the single-identifier chain is invoked exactly once for every symbol
\* of a group whose request raised a transport or parse exception, each
\* result other than None being stored under its symbol, and never for a
\* symbol of a group whose request did not raise.
C8_SinglesOnlyAfterRaise ==
    \A g \in Groups :
       \A t \in GroupSymbols(g) :
          /\ SingleCalls(t) <= 1
          /\ SingleCalls(t) = 1 => RequestRaised(g)
          /\ RequestRaised(g) /\ GroupFinished(g) =>
                /\ SingleCalls(t) = 1
                /\ \A j \in 1..Len(log) :
                      log[j].op = "single" /\ log[j].arg = t /\ log[j].res = "price"
                         => t \in DOMAIN result_dict

\* C9: the single-identifier stock resolver asks the primary at most once
\* and before the fallback, asks the fallback exactly when the primary did not
\* yield a positive price, and returns None when neither provider yields a
\* positive price.
C9_PrimaryThenFallback ==
    rpc = "done" =>
       LET prim == SelectSeq(log, LAMBDA e : e.op = "primary")
           fall == SelectSeq(log, LAMBDA e : e.op = "fallback")
           p == world.primary[ticker]
           f == world.fallback[ticker]
           primaryYields == Len(prim) = 1 /\ p.kind = "quote" /\ p.price > 0
           fallbackYields == Len(fall) = 1 /\ f.kind = "ok" /\ f.price > 0
       IN  /\ Len(prim) <= 1
           /\ Len(fall) <= 1
           /\ Len(prim) = 1 => log[1].op = "primary"
           /\ Len(fall) = 1 <=> ~primaryYields
           /\ ~primaryYields /\ ~fallbackYields => ret = None

\* The requests of the fund chain, in their fixed order.
FundSequence(code) ==
    << <<"charts", code, <<".SS">> >>, <<"charts", code, <<".SZ">> >>,
       <<"charts", code, <<"">> >>, <<"eastmoney", code, <<>> >> >>

\* What the provider answers to the n-th request of that order.
FundAnswer(n) ==
    IF n = 1 THEN world.charts[fund_code][".SS"]
    ELSE IF n = 2 THEN world.charts[fund_code][".SZ"]
    ELSE IF n = 3 THEN world.charts[fund_code][""]
    ELSE world.eastmoney[fund_code]

\* C10: the requests of the single-identifier fund resolver are a prefix of
\* [code.SS, code.SZ, code, fallback provider]; a request is made only when
\* all earlier ones yielded no price; the result is the price of the first
\* request that yields one, and None when none of the four does.
C10_FundChainPrefix ==
    rpc = "done" =>
       LET seq == FundSequence(fund_code)
           yields == {n \in 1..4 : FundAnswer(n).kind = "price"}
       IN  /\ Len(log) \in 1..4
           /\ \A n \in 1..Len(log) :
                 /\ <<log[n].op, log[n].arg, log[n].syms>> = seq[n]
                 /\ \A h \in 1..(n - 1) : h \notin yields
           /\ IF yields = {}
              THEN Len(log) = 4 /\ ret = None
              ELSE \E n \in yields :
                      /\ \A h \in yields : n <= h
                      /\ Len(log) = n
                      /\ ret = Some(FundAnswer(n).price)

\* Reached: the .SS request raised, the .SZ request had no price, and the
\* third request yielded the price that was returned.
C10_Witness ==
    /\ rpc = "done"
    /\ FundAnswer(1).kind = "raises"
    /\ FundAnswer(2).kind = "nodata"
    /\ FundAnswer(3).kind = "price"
    /\ Len(log) = 3
    /\ ret = Some(FundAnswer(3).price)

\* ----------------------------------------- properties of the fund list run

\* Where in log the combined fund request stands.
CombinedRequests == {j \in 1..Len(log) : log[j].op = "gtimg"}

\* Where in log the requests of the single-identifier fund chain stand.
FundChainRequests == {j \in 1..Len(log) : log[j].op \in {"charts", "eastmoney"}}

\* The combined request was answered with a body.
FundBatchSucceeded ==
    CombinedRequests # {} /\ \A j \in CombinedRequests : log[j].res = "body"

\* The lines of the body that carry a price > 0 for the symbol.
PricedLines(sym) ==
    {m \in 1..Len(world.body) :
        /\ world.body[m].sym = sym
        /\ world.body[m].kind = "price"
        /\ world.body[m].price > 0}

\* C11: the fund list resolver sends exactly one combined request, for the
\* whole input list, in which a code that starts with '6' or '5' carries the
\* prefix 'sh' and every other code the prefix 'sz'; a price parsed for a
\* prefixed symbol is stored under the code that symbol was built from, and
\* a line for any other symbol stores nothing.
C11_OneCombinedRequest ==
    /\ rpc = "fund_request" => CombinedRequests = {}
    /\ rpc \in {"fund_return", "fund_degrade", "done"} =>
          /\ CombinedRequests = {1}
          /\ log[1].arg = fund_code
          /\ Len(log[1].syms) = Len(fund_code)
          /\ \A n \in 1..Len(fund_code) :
                log[1].syms[n] =
                   <<IF fund_code[n][1] \in {"6", "5"} THEN "sh" ELSE "sz", fund_code[n]>>
    /\ rpc \in {"fund_return", "done"} /\ FundBatchSucceeded =>
          /\ DOMAIN result_dict \subseteq SetOf(fund_code)
          /\ \A n \in 1..Len(fund_code) :
                LET hits == PricedLines(log[1].syms[n]) IN
                   IF hits = {}
                   THEN fund_code[n] \notin DOMAIN result_dict
                   ELSE \E m \in hits : result_dict[fund_code[n]] = world.body[m].price

\* Reached: a list with a '5' code and a '0' code was answered; the price of
\* the line for the 'sh' symbol is stored under the '5' code, and the line
\* that names the '0' code with the prefix 'sh' stored nothing.
C11_Witness ==
    /\ rpc = "done"
    /\ FundBatchSucceeded
    /\ fund_code = << <<"5", "1">>, <<"0", "0">> >>
    /\ \E m \in 1..Len(world.body) :
          /\ world.body[m].sym = <<"sh", <<"5", "1">> >>
          /\ ret = (<<"5", "1">> :> world.body[m].price)
    /\ \E m \in 1..Len(world.body) :
          /\ world.body[m].sym = <<"sh", <<"0", "0">> >>
          /\ world.body[m].price > 0

\* C12: the single-identifier fund chain is called only after the combined
\* request raised, and then only for a code that has no price yet (each code
\* once); when the combined request is answered, no single lookup is made,
\* and a code the body omits or reports with a price <= 0 is absent from
\* the result.
C12_SinglesOnlyWhenBatchRaises ==
    /\ FundChainRequests # {} =>
          /\ CombinedRequests = {1}
          /\ log[1].res = "raises"
    /\ rpc = "fund_degrade" /\ deg_idx <= Len(fund_code) =>
          /\ fund_code[deg_idx] \notin DOMAIN result_dict
          /\ \A j \in FundChainRequests : log[j].arg # fund_code[deg_idx]
    /\ FundBatchSucceeded =>
          /\ FundChainRequests = {}
          /\ \A n \in 1..Len(fund_code) :
                PricedLines(Prefixed(fund_code[n])) = {} =>
                   fund_code[n] \notin DOMAIN result_dict

\* Reached: the combined request was answered without a line for the first
\* code and with a price of zero for the second; the run returned an empty
\* result without a single lookup.
C12_Witness ==
    /\ rpc = "done"
    /\ FundBatchSucceeded
    /\ Len(fund_code) = 2
    /\ Len(world.body) = 1
    /\ world.body[1].sym = Prefixed(fund_code[2])
    /\ world.body[1].kind = "price"
    /\ world.body[1].price = 0
    /\ ret = <<>>
    /\ FundChainRequests = {}

\* =========================================================================
\* Table client: construction and the authenticated operations
\* =========================================================================

\* The operations that send an authenticated request (lines 55-156, 203-213).
TableOps ==
    {"search_records", "add_record", "batch_add_records", "update_record",
     "batch_update_records", "delete_record"}

\* Lines 8-9: a new object holds no token, and the expiry 0; the clock
\* counts the seconds since the run started.
ClientInit ==
    /\ UpdIdle
    /\ ResIdle
    /\ records = <<>>
    /\ mpc = "construct"
    /\ china_fund_codes = <<>>
    /\ us_stock_codes = <<>>
    /\ access_token = None
    /\ token_expiry_time = 0
    /\ now = 0
    /\ http = <<>>

\* A mutant of Construct: a failed token request leaves a usable object.
Construct_IgnoresFailure ==
    /\ mpc = "construct"
    /\ \E r \in RefreshOutcomes :
          /\ access_token' = r.token
          /\ token_expiry_time' = r.expiry
          /\ http' = http \o r.reqs
          /\ mpc' = "constructed"
    /\ UNCHANGED <<now, records, china_fund_codes, us_stock_codes>>
    /\ UNCHANGED <<updVars, resVars>>

\* Lines 6-18: the constructor calls _refresh_access_token (line 14); when
\* that raises there is no object.
Construct ==
    /\ mpc = "construct"
    /\ \E r \in RefreshOutcomes :
          /\ access_token' = r.token
          /\ token_expiry_time' = r.expiry
          /\ http' = http \o r.reqs
          /\ mpc' = IF r.raised THEN "raised" ELSE "constructed"
    /\ UNCHANGED <<now, records, china_fund_codes, us_stock_codes>>
    /\ UNCHANGED <<updVars, resVars>>

\* The time that passes between two operations: just below, at and just
\* above the age at which line 24 asks for a new token.
TickSizes ==
    {TokenLifetime - ExpiryMargin - 1, TokenLifetime - ExpiryMargin,
     TokenLifetime - ExpiryMargin + 1}

\* Time passes; nothing else changes.
Elapse(d) ==
    /\ now + d <= MaxLifetimes * TokenLifetime
    /\ now' = now + d
    /\ UNCHANGED <<access_token, token_expiry_time, http>>
    /\ UNCHANGED <<updVars, resVars, mainVars>>

\* Time passes between two operations on the constructed object.
Tick ==
    /\ mpc = "constructed"
    /\ \E d \in TickSizes : Elapse(d)

\* One call of an operation on the constructed object, whatever its
\* arguments: _get_headers, then the request (a raise leaves the object to
\* the caller).
ClientOp(op) ==
    /\ mpc = "constructed"
    /\ upc \in {"idle", "done"}
    /\ Len(http) < MaxRequests
    /\ \E q \in TableRequest(op) : Sent(q)
    /\ UNCHANGED <<updVars, resVars, mainVars>>

\* Lines 55-72.
search_records == ClientOp("search_records")
\* Lines 74-87.
add_record == ClientOp("add_record")
\* Lines 89-104.
batch_add_records == ClientOp("batch_add_records")
\* Lines 106-139.
update_record == ClientOp("update_record")
\* Lines 141-156.
batch_update_records == ClientOp("batch_update_records")
\* Lines 203-213.
delete_record == ClientOp("delete_record")

\* Lines 158-163: batch_update_records_by_code is called on the constructed
\* object, with one code.
StartByCode ==
    /\ mpc = "constructed"
    /\ upc = "idle"
    /\ Len(http) < MaxRequests
    /\ \E x \in UpdInputs :
          /\ Len(x.keys) = 1
          /\ code_keys' = x.keys
          /\ code_records_dict' = x.records
          /\ code_price_dict' = x.prices
    /\ upc' = "loop"
    /\ code_idx' = 1
    /\ UNCHANGED <<total_updated, total_failed, row_idx, calls, returned>>
    /\ UNCHANGED <<resVars, cliVars, mainVars>>

ClientNext ==
    \/ Construct
    \/ Tick
    \/ search_records
    \/ add_record
    \/ batch_add_records
    \/ update_record
    \/ batch_update_records
    \/ delete_record
    \/ StartByCode
    \/ UpdNext

SpecClient == ClientInit /\ [][ClientNext]_vars

\* =========================================================================
\* The script (lines 548-667)
\* =========================================================================

\* The identifiers the rows of the table may name: an equity symbol, an
\* equity symbol that holds a digit, and a fund code.
MainA == <<"A">>
MainX == <<"X", "1">>
MainF == <<"1", "6">>

MainStocks == <<MainA, MainX>>

\* The "代号" field of a row: a list of items, each with a "text" (which may
\* be empty), or no list at all (the field is missing or of another type).
NoList == [list |-> FALSE, items |-> <<>>]
List(items) == [list |-> TRUE, items |-> items]

FieldShapes ==
    {NoList, List(<<MainA>>), List(<<MainA, MainX>>), List(<<MainF>>),
     List(<<MainX, MainF>>), List(<< <<>>, MainA >>)}

\* The tables search_records may return: at most MaxTableRows rows, the
\* record id of a row being its position.
Tables ==
    UNION {{[n \in 1..m |-> [record_id |-> n, field |-> f[n]]] : f \in [1..m -> FieldShapes]}
           : m \in 0..MaxTableRows}

\* A mutant of isdigit: one digit is enough.
isdigit_Any(code) ==
    /\ Len(code) > 0
    /\ \E n \in 1..Len(code) :
          code[n] \in {"0", "1", "2", "3", "4", "5", "6", "7", "8", "9"}

\* str.isdigit, over the characters 0-9 and A-Z: not empty, and every
\* character one of 0-9.
isdigit(code) ==
    /\ Len(code) > 0
    /\ \A n \in 1..Len(code) :
          code[n] \in {"0", "1", "2", "3", "4", "5", "6", "7", "8", "9"}

\* A mutant of code_set: only the first item of a row is read.
code_set_FirstOnly(recs) ==
    {c \in {recs[n].field.items[1] :
                n \in {m \in 1..Len(recs) :
                          recs[m].field.list /\ Len(recs[m].field.items) > 0}} :
        c # <<>>}

\* Lines 571-586: the text of every item of every row that has the list,
\* without the empty ones.
code_set(recs) ==
    {c \in UNION {SetOf(recs[n].field.items) : n \in {m \in 1..Len(recs) : recs[m].field.list}} :
        c # <<>>}

\* The orders a set can be listed in (line 589: list(code_set)).
Orders(S) ==
    {l \in [1..Cardinality(S) -> S] : \A a, b \in 1..Cardinality(S) : a # b => l[a] # l[b]}

\* A mutant of GroupRecords: a row is grouped under the text of its last
\* item.
RECURSIVE GroupRecords_LastItem(_, _, _, _, _)
GroupRecords_LastItem(recs, n, prices, keys, dict) ==
    IF n > Len(recs) THEN [keys |-> keys, dict |-> dict]
    ELSE LET f == recs[n].field
             last == IF f.list /\ Len(f.items) > 0 THEN f.items[Len(f.items)] ELSE <<>>
         IN  IF last # <<>> /\ last \in DOMAIN prices
             THEN IF last \in DOMAIN dict
                  THEN GroupRecords_LastItem(recs, n + 1, prices, keys,
                          [dict EXCEPT ![last] = Append(@, recs[n].record_id)])
                  ELSE GroupRecords_LastItem(recs, n + 1, prices, Append(keys, last),
                          (last :> <<recs[n].record_id>>) @@ dict)
             ELSE GroupRecords_LastItem(recs, n + 1, prices, keys, dict)

\* Lines 643-662: the rows are grouped under the text of their first item,
\* when it is not empty and has a price; the keys are in order of first
\* occurrence.
RECURSIVE GroupRecords(_, _, _, _, _)
GroupRecords(recs, n, prices, keys, dict) ==
    IF n > Len(recs) THEN [keys |-> keys, dict |-> dict]
    ELSE LET f == recs[n].field
             first == IF f.list /\ Len(f.items) > 0 THEN f.items[1] ELSE <<>>
         IN  IF first # <<>> /\ first \in DOMAIN prices
             THEN IF first \in DOMAIN dict
                  THEN GroupRecords(recs, n + 1, prices, keys,
                          [dict EXCEPT ![first] = Append(@, recs[n].record_id)])
                  ELSE GroupRecords(recs, n + 1, prices, Append(keys, first),
                          (first :> <<recs[n].record_id>>) @@ dict)
             ELSE GroupRecords(recs, n + 1, prices, keys, dict)

\* What the price providers answer in a run of the script: in the first
\* world the first symbol and the first fund code get a price from the
\* batch providers, and every further world shifts the answers by one.
MainWorld(w) ==
    [quote    |-> [t \in Range(MainStocks) |->
                     LET n == CHOOSE m \in 1..Len(MainStocks) : MainStocks[m] = t
                     IN  Pick(BatchAnswers(n), n - 1 + w)],
     primary  |-> [t \in Range(MainStocks) |->
                     LET n == CHOOSE m \in 1..Len(MainStocks) : MainStocks[m] = t
                     IN  Pick(PrimaryAnswers(n), n - 1 + w)],
     fallback |-> [t \in Range(MainStocks) |->
                     LET n == CHOOSE m \in 1..Len(MainStocks) : MainStocks[m] = t
                     IN  Pick(FallbackAnswers(n), n - 1 + w)],
     kinds    |-> [n \in 1..Len(BodyKindList) |-> Pick(BodyKindList, n - 1 + w)],
     body     |-> <<>>]
    @@ FundWorld(w)

\* Lines 551-562: nothing has been done; the script sets an Alpha Vantage
\* key (line 560).
MainInit ==
    /\ UpdIdle
    /\ access_token = None
    /\ token_expiry_time = 0
    /\ now = 0
    /\ http = <<>>
    /\ records = <<>>
    /\ mpc = "construct"
    /\ china_fund_codes = <<>>
    /\ us_stock_codes = <<>>
    /\ ticker = <<>>
    /\ fund_code = <<>>
    /\ alpha_vantage_key = TRUE
    /\ \E w \in 0..MaxMainWorld : world = MainWorld(w)
    /\ result_dict = <<>>
    /\ i = 0
    /\ deg_idx = 0
    /\ rpc = "idle"
    /\ log = <<>>
    /\ ret = None

\* Line 568 raises (the token check or the request): the except clause of
\* line 667 ends the run.
MainSearchFails ==
    /\ mpc = "constructed"
    /\ \E q \in TableRequest("search_records") :
          /\ q.outcome # "ok"
          /\ Sent(q)
    /\ mpc' = "raised"
    /\ UNCHANGED <<records, china_fund_codes, us_stock_codes>>
    /\ UNCHANGED <<updVars, resVars>>

\* Lines 568-599: the rows are read, the codes extracted and split into the
\* fund codes (all digits) and the stock symbols (the others).
MainSearchOk ==
    /\ mpc = "constructed"
    /\ \E q \in TableRequest("search_records") :
          /\ q.outcome = "ok"
          /\ Sent(q)
    /\ records' \in Tables
    /\ china_fund_codes' \in Orders({c \in code_set(records') : c # <<>> /\ isdigit(c)})
    /\ us_stock_codes' \in Orders({c \in code_set(records') : c # <<>> /\ ~isdigit(c)})
    /\ mpc' = "funds"
    /\ UNCHANGED <<updVars, resVars>>

\* Lines 605-606: get_china_fund_price is called with the fund codes, when
\* there are any; the provider's body is the world's answer to that list.
MainCallFunds ==
    /\ mpc = "funds"
    /\ IF china_fund_codes # <<>>
       THEN /\ fund_code' = china_fund_codes
            /\ world' = [world EXCEPT !.body = Body(china_fund_codes, world.kinds, 1)]
            /\ result_dict' = <<>>
            /\ rpc' = "fund_request"
            /\ mpc' = "funds_running"
       ELSE /\ mpc' = "stocks"
            /\ UNCHANGED <<fund_code, world, result_dict, rpc>>
    /\ UNCHANGED <<ticker, alpha_vantage_key, i, deg_idx, log, ret>>
    /\ UNCHANGED <<records, china_fund_codes, us_stock_codes>>
    /\ UNCHANGED <<updVars, cliVars>>

\* Line 607: code_price_dict.update(china_prices).
MainMergeFunds ==
    /\ mpc = "funds_running"
    /\ rpc = "done"
    /\ code_price_dict' = ret @@ code_price_dict
    /\ mpc' = "stocks"
    /\ UNCHANGED <<code_keys, code_records_dict, total_updated, total_failed, upc,
                   code_idx, row_idx, calls, returned>>
    /\ UNCHANGED <<records, china_fund_codes, us_stock_codes>>
    /\ UNCHANGED <<resVars, cliVars>>

\* Lines 610-611: get_us_stock_price is called with the stock symbols, when
\* there are any.
MainCallStocks ==
    /\ mpc = "stocks"
    /\ IF us_stock_codes # <<>>
       THEN /\ ticker' = us_stock_codes
            /\ result_dict' = <<>>
            /\ i' = 0
            /\ rpc' = "request"
            /\ mpc' = "stocks_running"
       ELSE /\ mpc' = "group"
            /\ UNCHANGED <<ticker, result_dict, i, rpc>>
    /\ UNCHANGED <<fund_code, alpha_vantage_key, world, deg_idx, log, ret>>
    /\ UNCHANGED <<records, china_fund_codes, us_stock_codes>>
    /\ UNCHANGED <<updVars, cliVars>>

\* Line 612: code_price_dict.update(us_prices).
MainMergeStocks ==
    /\ mpc = "stocks_running"
    /\ rpc = "done"
    /\ code_price_dict' = ret @@ code_price_dict
    /\ mpc' = "group"
    /\ UNCHANGED <<code_keys, code_records_dict, total_updated, total_failed, upc,
                   code_idx, row_idx, calls, returned>>
    /\ UNCHANGED <<records, china_fund_codes, us_stock_codes>>
    /\ UNCHANGED <<resVars, cliVars>>

\* Lines 643-665: the rows are grouped and batch_update_records_by_code is
\* called with the groups and the prices.
MainGroup ==
    /\ mpc = "group"
    /\ LET g == GroupRecords(records, 1, code_price_dict, <<>>, <<>>) IN
          /\ code_keys' = g.keys
          /\ code_records_dict' = g.dict
    /\ upc' = "loop"
    /\ code_idx' = 1
    /\ mpc' = "updating"
    /\ UNCHANGED <<code_price_dict, total_updated, total_failed, row_idx, calls, returned>>
    /\ UNCHANGED <<records, china_fund_codes, us_stock_codes>>
    /\ UNCHANGED <<resVars, cliVars>>

\* The time the resolvers took (their requests and sleeps), added once to
\* the clock before the first token check after them: up to the age at
\* which line 24 asks for a new token, or beyond it.
MainTick ==
    /\ mpc = "updating"
    /\ upc = "loop"
    /\ calls = <<>>
    /\ now = 0
    /\ \E d \in {TokenLifetime - ExpiryMargin, TokenLifetime - ExpiryMargin + 1} : Elapse(d)

\* Line 665 returns: the script is over.
MainDone ==
    /\ mpc = "updating"
    /\ upc = "done"
    /\ mpc' = "done"
    /\ UNCHANGED <<records, china_fund_codes, us_stock_codes>>
    /\ UNCHANGED <<updVars, resVars, cliVars>>

\* The bulk update's steps without SkipCode: the groups of lines 655-662
\* hold only codes that have a price.
MainNext ==
    \/ Construct
    \/ MainSearchFails
    \/ MainSearchOk
    \/ MainCallFunds
    \/ FundBatchNext
    \/ MainMergeFunds
    \/ MainCallStocks
    \/ StockNext
    \/ MainMergeStocks
    \/ MainGroup
    \/ MainTick
    \/ BatchUpdateOk
    \/ BatchUpdateFails
    \/ UpdateRowOk
    \/ UpdateRowFails
    \/ UpdReturn
    \/ MainDone

SpecMain == MainInit /\ [][MainNext]_vars

\* --------------------------------------------- properties of the table client

\* C16: a step that runs _refresh_access_token (the constructor and every
\* authenticated operation: the steps that send something) sends a token
\* request if and only if no token is held or the time + 30 s exceeds the
\* stored expiry; a request that is answered with a token stores it and
\* sets the expiry to the time of the request + 7200 s; without a token
\* request the token and the expiry stay as they are.
C16_RefreshIffNeeded ==
    [][LET new == SubSeq(http', Len(http) + 1, Len(http'))
           tokenReqs == {j \in 1..Len(new) : new[j].op = "token"}
       IN  /\ http' # http =>
                (tokenReqs # {} <=>
                    (access_token = None \/ now + 30 > token_expiry_time))
           /\ Cardinality(tokenReqs) <= 1
           /\ \A j \in tokenReqs :
                 new[j].outcome = "ok" =>
                    /\ new[j].at = now
                    /\ access_token' = Some(now)
                    /\ token_expiry_time' = now + 7200
           /\ tokenReqs = {} =>
                 /\ access_token' = access_token
                 /\ token_expiry_time' = token_expiry_time
      ]_vars

\* Reached: the token of the constructor was used by a request without a
\* token request, and at a later time, more than 7170 s after the first, a
\* second token was asked for and stored with its own expiry.
C16_Witness ==
    /\ Len(http) >= 4
    /\ http[1].op = "token" /\ http[1].outcome = "ok" /\ http[1].at = 0
    /\ http[2].op \in TableOps /\ http[2].at <= 7170 /\ http[2].token = Some(0)
    /\ http[3].op = "token" /\ http[3].outcome = "ok" /\ http[3].at > 7170
    /\ access_token = Some(http[3].at)
    /\ token_expiry_time = http[3].at + 7200

\* C17: every authenticated request (of any of the six operations, the
\* per-row updates of the fallback included) carries a token whose stored
\* expiry is at least 30 s after the time its operation checked it at; and
\* after the constructor a token is issued only by the check of an
\* operation, whose request follows at once with the new token.
C17_RequestsCarryCheckedToken ==
    \A j \in 1..Len(http) :
       /\ http[j].op \in TableOps =>
             /\ http[j].token # None
             /\ http[j].expiry >= http[j].at + 30
       /\ http[j].op \notin TableOps =>
             /\ http[j].op = "token"
             /\ j > 1 /\ http[j].outcome = "ok" =>
                   /\ j < Len(http)
                   /\ http[j + 1].op \in TableOps
                   /\ http[j + 1].at = http[j].at
                   /\ http[j + 1].token = Some(http[j].at)
                   /\ http[j + 1].expiry = http[j].at + 7200

\* Reached: after a failed batch request, the per-row update of the fallback
\* found the token too old, asked for a new one and carried it.
C17_Witness ==
    /\ \E c \in 1..Len(calls) :
          calls[c].op = "batch_update_records" /\ calls[c].outcome = "raises"
    /\ \E j \in 2..Len(http) :
          /\ http[j].op = "update_record"
          /\ http[j - 1].op = "token"
          /\ http[j - 1].outcome = "ok"
          /\ http[j].token = Some(http[j].at)
          /\ http[j].at > 0

\* ------------------------------------------------- properties of the script

\* The text of the first item of a row, <<>> when there is none.
FirstText(rec) ==
    IF rec.field.list /\ Len(rec.field.items) > 0 THEN rec.field.items[1] ELSE <<>>

\* The texts of all items of all rows.
AllTexts ==
    {c \in UNION {SetOf(records[n].field.items) : n \in 1..Len(records)} : c # <<>>}

AllDigits(c) ==
    \A n \in 1..Len(c) : c[n] \in {"0", "1", "2", "3", "4", "5", "6", "7", "8", "9"}

C14_UniverseAllItemsGroupFirstItem ==
    /\ mpc \notin {"construct", "constructed", "raised"} =>
          /\ \A n \in 1..Len(records) :
                \A m \in 1..Len(records[n].field.items) :
                   records[n].field.items[m] # <<>> =>
                      records[n].field.items[m]
                         \in SetOf(china_fund_codes) \cup SetOf(us_stock_codes)
          /\ SetOf(china_fund_codes) \cup SetOf(us_stock_codes) \subseteq AllTexts
    /\ mpc = "funds_running" => fund_code = china_fund_codes
    /\ mpc = "stocks_running" => ticker = us_stock_codes
    /\ mpc \in {"updating", "done"} =>
          /\ \A code \in DOMAIN code_records_dict :
                \A n \in 1..Len(code_records_dict[code]) :
                   LET rid == code_records_dict[code][n] IN
                      /\ rid \in 1..Len(records)
                      /\ FirstText(records[rid]) = code
                      /\ \A h \in 1..Len(code_records_dict[code]) :
                            h # n => code_records_dict[code][h] # rid
          /\ \A rid \in 1..Len(records) :
                LET first == FirstText(records[rid]) IN
                   first # <<>> /\ first \in DOMAIN code_price_dict =>
                      /\ first \in DOMAIN code_records_dict
                      /\ rid \in SetOf(code_records_dict[first])

\* Reached: the rows [A] and [A, X] are both grouped under A; X was handed
\* to the stock resolver, got a price, and has no group.
C14_Witness ==
    /\ mpc = "updating"
    /\ Len(records) = 2
    /\ records[1].field = List(<<MainA>>)
    /\ records[2].field = List(<<MainA, MainX>>)
    /\ code_records_dict = (MainA :> <<1, 2>>)
    /\ MainX \in SetOf(us_stock_codes)
    /\ MainX \in DOMAIN code_price_dict

\* C15: every write of the run, batch or single, carries for each of its
\* rows the price the price map holds for the text of that row's first
\* item, so all rows that share an identifier are written with one price; a
\* row whose first text has no price is never written; and no identifier is
\* handed to a resolver twice (the two lists, the only arguments the
\* resolvers get, have no duplicates and no common element).
C15_WritesUsePriceOfFirstItem ==
    /\ \A c \in 1..Len(calls) :
          \A n \in 1..Len(calls[c].rids) :
             LET rid == calls[c].rids[n]
                 first == FirstText(records[rid])
             IN  /\ first # <<>>
                 /\ first \in DOMAIN code_price_dict
                 /\ calls[c].code = first
                 /\ calls[c].price = code_price_dict[first]
    /\ \A c, d \in 1..Len(calls) :
          \A n \in 1..Len(calls[c].rids), m \in 1..Len(calls[d].rids) :
             FirstText(records[calls[c].rids[n]]) = FirstText(records[calls[d].rids[m]])
                => calls[c].price = calls[d].price
    /\ mpc = "done" =>
          \A rid \in 1..Len(records) :
             FirstText(records[rid]) \notin DOMAIN code_price_dict =>
                \A c \in 1..Len(calls) : rid \notin SetOf(calls[c].rids)
    /\ Len(china_fund_codes) = Cardinality(SetOf(china_fund_codes))
    /\ Len(us_stock_codes) = Cardinality(SetOf(us_stock_codes))
    /\ SetOf(china_fund_codes) \cap SetOf(us_stock_codes) = {}
    /\ fund_code \in {<<>>, china_fund_codes}
    /\ ticker \in {<<>>, us_stock_codes}
    /\ Cardinality({j \in 1..Len(log) : log[j].op = "gtimg"}) <= 1

\* Reached: the run is over; the batch for A failed, and the rows [A, X] and
\* [A] were then written one by one with the price of A, although X has a
\* price of its own.
C15_Witness ==
    /\ mpc = "done"
    /\ Len(records) = 2
    /\ records[1].field = List(<<MainA, MainX>>)
    /\ records[2].field = List(<<MainA>>)
    /\ MainX \in DOMAIN code_price_dict
    /\ MainA \in DOMAIN code_price_dict
    /\ code_price_dict[MainX] # code_price_dict[MainA]
    /\ Len(calls) = 3
    /\ calls[1].op = "batch_update_records" /\ calls[1].outcome # "ok"
    /\ calls[2].op = "update_record" /\ calls[2].rids = <<1>>
    /\ calls[3].op = "update_record" /\ calls[3].rids = <<2>>
    /\ calls[2].price = code_price_dict[MainA]
    /\ calls[3].price = code_price_dict[MainA]

\* The search had been answered before the j-th request to the service.
SearchedBefore(j) ==
    \E h \in 1..(j - 1) : http[h].op = "search_records" /\ http[h].outcome = "ok"

\* The failures of the search and of the token endpoint, by their place in
\* http.
FatalFailures ==
    {j \in 1..Len(http) :
        http[j].outcome = "raises" /\ http[j].op \in {"token", "search_records"}}

\* C18 as stated: once the search or a token request has failed, at any
\* point of the run, the bulk update included, no further provider request
\* and no further table request is made.
C18_FailureEndsRun ==
    [][FatalFailures # {} => http' = http /\ log' = log]_vars

\* C18, amended: a failure of the search, or of a token request made by the
\* constructor or by the search, ends the run: no further provider request
\* and no further table request is made. A token request that fails during
\* the bulk update is caught like every other failure of an update call:
\* the operation does not raise, and the failed call is counted or retried
\* row by row.
C18_EarlyFailureEndsRun ==
    /\ [][(\E j \in FatalFailures : ~SearchedBefore(j)) =>
             http' = http /\ log' = log]_vars
    /\ []((\E j \in FatalFailures : SearchedBefore(j)) =>
             /\ mpc \in {"updating", "done"}
             /\ upc # "raised"
             /\ \E c \in 1..Len(calls) : calls[c].outcome = "auth_raises"
             /\ mpc = "done" =>
                   total_failed >=
                      Cardinality({c \in 1..Len(calls) :
                                      /\ calls[c].op = "update_record"
                                      /\ calls[c].outcome = "auth_raises"}))

\* Reached: during the bulk update a token request failed for the batch
\* call, the rows were then tried one by one, a later token request was
\* answered and the row was written; the run went on to its end.
C18_Witness ==
    /\ mpc = "done"
    /\ Len(calls) >= 2
    /\ calls[1].op = "batch_update_records"
    /\ calls[1].outcome = "auth_raises"
    /\ calls[2].op = "update_record"
    /\ calls[2].outcome = "ok"
    /\ \E j \in FatalFailures :
          /\ SearchedBefore(j)
          /\ j + 2 <= Len(http)
          /\ http[j + 1].op = "token" /\ http[j + 1].outcome = "ok"
          /\ http[j + 2].op = "update_record"

\* ------------------------------------ properties of the two list resolvers

\* Which of the two resolvers the run is a call of.
StockRun == "quote" \in DOMAIN world

FundRun == "body" \in DOMAIN world

\* No provider the run asked about the ticker gave a quote, that is a price
\* > 0: no answered group request carried one for it, and neither did the
\* primary nor the fallback provider.
StockFailed(t) ==
    ~ \E j \in 1..Len(log) :
         \/ /\ log[j].op = "batch"
            /\ log[j].res = "body"
            /\ t \in Range(log[j].syms)
            /\ world.quote[t].kind = "price"
            /\ world.quote[t].price > 0
         \/ /\ log[j].op = "primary"
            /\ log[j].arg = t
            /\ log[j].res = "quote"
            /\ world.primary[t].price > 0
         \/ /\ log[j].op = "fallback"
            /\ log[j].arg = t
            /\ log[j].res = "ok"
            /\ world.fallback[t].price > 0

\* No provider the run asked about the fund code gave a price > 0: the
\* combined request was not answered with such a line for its symbol, and
\* no request of the single-identifier chain gave one.
FundFailed(c) ==
    ~ \E j \in 1..Len(log) :
         \/ /\ log[j].op = "gtimg"
            /\ log[j].res = "body"
            /\ PricedLines(Prefixed(c)) # {}
         \/ /\ log[j].op = "charts"
            /\ log[j].arg = c
            /\ log[j].res = "price"
            /\ world.charts[c][log[j].syms[1]].price > 0
         \/ /\ log[j].op = "eastmoney"
            /\ log[j].arg = c
            /\ log[j].res = "price"
            /\ world.eastmoney[c].price > 0

\* No exception leaves a list resolver, and the call has a next step until
\* it has returned a map whose keys are input identifiers.
ResolversReturn ==
    /\ rpc # "raised"
    /\ rpc # "done" => ENABLED ResolversNext
    /\ rpc = "done" /\ StockRun => DOMAIN ret \subseteq Range(ticker)
    /\ rpc = "done" /\ FundRun => DOMAIN ret \subseteq Range(fund_code)

\* An identifier for which every provider asked failed is not a key of the
\* returned map.
FailedAbsent ==
    /\ rpc = "done" /\ StockRun =>
          \A t \in Range(ticker) : StockFailed(t) => t \notin DOMAIN ret
    /\ rpc = "done" /\ FundRun =>
          \A c \in Range(fund_code) : FundFailed(c) => c \notin DOMAIN ret

\* C19: provider failures never abort a list resolver: whatever the
\* providers do (error response, rate-limit code, malformed body, exception
\* of the request), get_us_stock_price and get_china_fund_price called with
\* a list return a map without raising, and an identifier whose resolution
\* failed (no provider gave a quote for it) is not a key of that map.
C19_ResolversNeverRaise == ResolversReturn /\ FailedAbsent

\* ------------------------------- properties of the bulk update: skipped codes

\* The loop of line 164 stands at a code that has no price.
AtUnpricedCode ==
    /\ upc = "loop"
    /\ code_idx <= Len(code_keys)
    /\ code_keys[code_idx] \notin DOMAIN code_price_dict

\* The codes of the records map that have no price.
UnpricedKeys == {code_keys[k] : k \in 1..Len(code_keys)} \ DOMAIN code_price_dict

\* C20: in batch_update_records_by_code a code of the records map that has
\* no price is skipped: no batch or single-row update call is ever made for
\* it, and the step that handles it sends no request, raises nothing, leaves
\* the updated and the failed count as they are and moves to the next code.
C20_UnpricedCodeSkipped ==
    /\ [](\A j \in 1..Len(calls) : calls[j].code \notin UnpricedKeys)
    /\ [][AtUnpricedCode =>
             /\ calls' = calls
             /\ http' = http
             /\ total_updated' = total_updated
             /\ total_failed' = total_failed
             /\ upc' = "loop"
             /\ code_idx' = code_idx + 1]_vars

\* Reached: the call returned after it skipped a first code that has two
\* rows and no price, and updated the rows of a second code in one batch;
\* the counts are those of the second code alone.
C20_Witness ==
    /\ upc = "done"
    /\ Len(code_keys) = 2
    /\ UnpricedKeys = {code_keys[1]}
    /\ Len(code_records_dict[code_keys[1]]) = 2
    /\ Len(calls) = 1
    /\ calls[1].code = code_keys[2]
    /\ calls[1].outcome = "ok"
    /\ returned = <<Len(code_records_dict[code_keys[2]]), 0>>
    /\ returned[1] > 0

\* ------------------------- properties of the bulk update: order of the calls

\* The step appends a successful batch call to calls.
BatchCallSucceeds ==
    /\ Len(calls') = Len(calls) + 1
    /\ calls'[Len(calls')].op = "batch_update_records"
    /\ calls'[Len(calls')].outcome = "ok"

\* C21: batch_update_records_by_code makes exactly one batch_update_records
\* call per priced code (never a second one, and one by the time the loop
\* has passed the code); every update_record call comes after a failed
\* batch call of the same code that covered its row; after a successful
\* batch call no update_record call is made for the code; and the step of
\* a successful batch call adds exactly the number of the code's rows to
\* the updated count and nothing to the failed count.
C21_BatchFirstThenRows ==
    /\ [](/\ \A code \in PricedKeys :
              /\ Len(CallsOf("batch_update_records", code)) <= 1
              /\ CodeFinished(code) => Len(CallsOf("batch_update_records", code)) = 1
              /\ BatchSucceeded(code) => CallsOf("update_record", code) = <<>>
          /\ \A j \in 1..Len(calls) :
                calls[j].op = "update_record" =>
                   \E b \in 1..(j - 1) :
                      /\ calls[b].op = "batch_update_records"
                      /\ calls[b].code = calls[j].code
                      /\ calls[b].outcome # "ok"
                      /\ calls[j].rids[1] \in Range(calls[b].rids))
    /\ [][BatchCallSucceeds =>
             /\ total_updated' = total_updated
                                    + Len(code_records_dict[calls'[Len(calls')].code])
             /\ total_failed' = total_failed]_vars

\* Reached: the call returned after the batch call of a first code with two
\* rows succeeded, with no single-row call for it, and the batch call of a
\* second code failed and was followed by single-row calls.
C21_Witness ==
    /\ upc = "done"
    /\ Len(code_keys) = 2
    /\ PricedKeys = {code_keys[1], code_keys[2]}
    /\ BatchSucceeded(code_keys[1])
    /\ Len(code_records_dict[code_keys[1]]) = 2
    /\ CallsOf("update_record", code_keys[1]) = <<>>
    /\ BatchFailed(code_keys[2])
    /\ Len(CallsOf("update_record", code_keys[2])) > 0
    /\ returned[1] >= 2

\* --------------------------- properties of the bulk update: the two counts

\* The record ids listed under the codes that have a price.
PricedRows == UNION {Range(code_records_dict[code]) : code \in PricedKeys}

\* The single-row calls made for a record id.
RowCallsFor(rid) ==
    {j \in 1..Len(calls) : calls[j].op = "update_record" /\ calls[j].rids = <<rid>>}

\* The rows a successful batch call covered, or a successful single-row
\* call updated; and the rows whose single-row call failed.
UpdatedRows ==
    {rid \in PricedRows :
        \/ \E j \in 1..Len(calls) : /\ calls[j].op = "batch_update_records"
                                     /\ calls[j].outcome = "ok"
                                     /\ rid \in Range(calls[j].rids)
        \/ \E j \in RowCallsFor(rid) : calls[j].outcome = "ok"}

FailedRows == {rid \in PricedRows : \E j \in RowCallsFor(rid) : calls[j].outcome # "ok"}

\* C22: when batch_update_records_by_code has returned, whatever the
\* outcomes of the update calls were, every row listed under a priced code
\* is counted exactly once, as updated or as failed and never as both: the
\* returned pair is the number of updated rows and the number of failed
\* rows, the two add up to the number of rows under priced codes, and the
\* failed count is above zero only when a batch call failed.
C22_EveryPricedRowCountedOnce ==
    upc = "done" =>
       /\ UpdatedRows \cup FailedRows = PricedRows
       /\ UpdatedRows \cap FailedRows = {}
       /\ \A rid \in PricedRows : Cardinality(RowCallsFor(rid)) <= 1
       /\ returned = <<Cardinality(UpdatedRows), Cardinality(FailedRows)>>
       /\ returned[1] + returned[2]
             = SumSeq([k \in 1..Len(code_keys) |->
                         IF code_keys[k] \in PricedKeys
                         THEN Len(code_records_dict[code_keys[k]]) ELSE 0])
       /\ returned[2] > 0 => \E code \in PricedKeys : BatchFailed(code)

\* Reached: the call returned (2, 1) for three priced rows: the batch call
\* of one code failed, one of its two rows was then updated and the other
\* failed, and the batch call of the other code updated its single row.
C22_Witness ==
    /\ upc = "done"
    /\ Len(code_keys) = 2
    /\ PricedKeys = {code_keys[1], code_keys[2]}
    /\ Cardinality(PricedRows) = 3
    /\ \E code \in PricedKeys :
          /\ BatchFailed(code)
          /\ Len(code_records_dict[code]) = 2
    /\ \E code \in PricedKeys :
          /\ BatchSucceeded(code)
          /\ Len(code_records_dict[code]) = 1
    /\ returned = <<2, 1>>

\* ------------------------ properties of the table client: a failed refresh

\* The requests the step adds to http.
NewRequests == SubSeq(http', Len(http) + 1, Len(http'))

\* The step sends a token request that fails.
TokenRequestFails ==
    /\ Len(http') > Len(http)
    /\ http'[Len(http) + 1].op = "token"
    /\ http'[Len(http) + 1].outcome = "raises"

\* The last request sent was a token request that failed.
LastRefreshFailed ==
    /\ http # <<>>
    /\ http[Len(http)].op = "token"
    /\ http[Len(http)].outcome = "raises"

\* C23: when the token request of _refresh_access_token fails, the refresh
\* raises (the operation that asked for the headers sends nothing, the
\* constructor gives no object) and the held token and the stored expiry
\* stay exactly as they were; so after a failed refresh the condition of
\* line 24 still holds, and the next operation that sends anything starts
\* with another token request.
C23_FailedRefreshKeepsToken ==
    /\ [][TokenRequestFails =>
             /\ access_token' = access_token
             /\ token_expiry_time' = token_expiry_time
             /\ Len(NewRequests) = 1
             /\ mpc = "construct" => mpc' = "raised"
             /\ calls' # calls => calls'[Len(calls')].outcome = "auth_raises"]_vars
    /\ [](LastRefreshFailed =>
             (access_token = None \/ now + 30 > token_expiry_time))
    /\ [][LastRefreshFailed /\ http' # http => http'[Len(http) + 1].op = "token"]_vars

\* Reached: the token of the constructor ran out, the token request of a
\* batch update failed and left that token and its expiry in place, and
\* the single-row update that followed asked for a token again, got one
\* and sent its request with it.
C23_Witness ==
    /\ Len(http) = 4
    /\ http[1].op = "token" /\ http[1].outcome = "ok" /\ http[1].at = 0
    /\ http[2].op = "token" /\ http[2].outcome = "raises" /\ http[2].at > 7170
    /\ http[2].expiry = 7200
    /\ http[3].op = "token" /\ http[3].outcome = "ok" /\ http[3].expiry = 7200
    /\ http[4].op = "update_record" /\ http[4].token = Some(http[3].at)
    /\ Len(calls) = 2
    /\ calls[1].outcome = "auth_raises"
    /\ access_token = Some(http[3].at)

\* ------------------- properties of the two list resolvers: keys and sources

\* The price p was given for the ticker by the answered request of a group
\* that held it, or returned by the single-identifier chain run for it.
StockPriceFrom(t, p) ==
    \E j \in 1..Len(log) :
       \/ /\ log[j].op = "batch"
          /\ log[j].res = "body"
          /\ t \in Range(log[j].syms)
          /\ world.quote[t] = Answer("price", p)
       \/ /\ log[j].op = "single"
          /\ log[j].arg = t
          /\ SingleUS(t).ret = Some(p)

\* The price p was given for the fund code by a line of the answered
\* combined request that names the symbol built from it, or by a request of
\* the single-identifier chain run for it.
FundPriceFrom(c, p) ==
    \E j \in 1..Len(log) :
       \/ /\ log[j].op = "gtimg"
          /\ log[j].res = "body"
          /\ Prefixed(c) \in Range(log[j].syms)
          /\ \E m \in PricedLines(Prefixed(c)) : world.body[m].price = p
       \/ /\ log[j].op = "charts"
          /\ log[j].arg = c
          /\ world.charts[c][log[j].syms[1]] = Answer("price", p)
       \/ /\ log[j].op = "eastmoney"
          /\ log[j].arg = c
          /\ world.eastmoney[c] = Answer("price", p)

\* C24: in both list resolvers, whatever the providers answer, the keys of
\* the result map (at every step, and of the map returned) are identifiers
\* of the input, and the value under a key is a price that the response to
\* a request holding that identifier gave for it: the group request (or its
\* retry) or the single lookup for a ticker, the combined request or the
\* single lookup for a fund code. A price reported for a symbol that was
\* not asked for, or by the response to another group, is stored nowhere.
C24_KeysAndPricesFromOwnRequest ==
    /\ StockRun =>
          /\ DOMAIN result_dict \subseteq Range(ticker)
          /\ \A t \in DOMAIN result_dict : StockPriceFrom(t, result_dict[t])
    /\ FundRun =>
          /\ DOMAIN result_dict \subseteq Range(fund_code)
          /\ \A c \in DOMAIN result_dict : FundPriceFrom(c, result_dict[c])
    /\ rpc = "done" => ret = result_dict

\* Reached: ten tickers were asked for in two groups, both answered; the
\* provider also has a price for a symbol that was not asked for, which is
\* not in the returned map, and the map holds tickers of both groups.
C24_Witness ==
    /\ rpc = "done"
    /\ StockRun
    /\ Len(ticker) = 10
    /\ \A j \in 1..Len(log) : log[j].op = "batch" => log[j].res = "body"
    /\ \E u \in Symbols \ Range(ticker) :
          world.quote[u].kind = "price" /\ u \notin DOMAIN ret
    /\ \E t \in DOMAIN ret : t <= 8
    /\ \E t \in DOMAIN ret : t > 8

====
